---- MODULE Spec2Model ----
(***************************************************************************)
(* process_exporter-lite (metrics.go): the refresh loop, the fan-out /     *)
(* fan-in collector, the per-process reader and the snapshot store served  *)
(* by the scrape handler.                                                  *)
(*                                                                         *)
(* A Go string is a sequence of atoms.  An atom is one character           *)
(* (" ", "\n", "/", a digit, the NUL separator) or an opaque word that     *)
(* holds no whitespace, no separator and no digit ("VmRSS:", "bash").      *)
(***************************************************************************)
EXTENDS Integers, Sequences, FiniteSets, TLC

\* ------------------------------------------------------------------------
\* strings, strconv, path/filepath
\* ------------------------------------------------------------------------

NUL == "<NUL>"
NL == "\n"
SP == " "
Slash == "/"
WhiteSpace == {SP, NL, "\t"}
Digits == <<"0", "1", "2", "3", "4", "5", "6", "7", "8", "9">>
DigitSet == {Digits[i] : i \in 1..10}
DigitVal(c) == (CHOOSE i \in 1..10 : Digits[i] = c) - 1

Drop(s, n) == SubSeq(s, n + 1, Len(s))

\* strings.TrimSpace: leading and trailing white space removed
TrimSpace(s) ==
  LET keep == {i \in 1..Len(s) : s[i] \notin WhiteSpace}
  IN IF keep = {} THEN <<>>
     ELSE SubSeq(s, CHOOSE i \in keep : \A j \in keep : i <= j,
                    CHOOSE i \in keep : \A j \in keep : i >= j)

\* strings.Split(s, sep) for a one-character sep: always at least one part
RECURSIVE Split(_, _)
Split(s, sep) ==
  LET at == {i \in 1..Len(s) : s[i] = sep}
  IN IF at = {} THEN <<s>>
     ELSE LET i == CHOOSE k \in at : \A j \in at : k <= j
          IN <<SubSeq(s, 1, i - 1)>> \o Split(Drop(s, i), sep)

\* strings.Fields: the maximal runs of non-white-space
RECURSIVE Fields(_)
Fields(s) ==
  LET keep == {i \in 1..Len(s) : s[i] \notin WhiteSpace}
  IN IF keep = {} THEN <<>>
     ELSE LET a == CHOOSE i \in keep : \A j \in keep : i <= j
              ws == {i \in a..Len(s) : s[i] \in WhiteSpace}
              b == IF ws = {} THEN Len(s) + 1
                   ELSE CHOOSE i \in ws : \A j \in ws : i <= j
          IN <<SubSeq(s, a, b - 1)>> \o Fields(Drop(s, b - 1))

\* strings.Join(parts, sep)
RECURSIVE Join(_, _)
Join(parts, sep) ==
  IF Len(parts) = 0 THEN <<>>
  ELSE IF Len(parts) = 1 THEN parts[1]
  ELSE parts[1] \o <<sep>> \o Join(Tail(parts), sep)

\* strings.HasPrefix(line, word) for a one-word prefix
HasPrefix(line, word) == Len(line) >= 1 /\ line[1] = word

\* filepath.Base
RECURSIVE StripTrailingSlashes(_)
StripTrailingSlashes(p) ==
  IF Len(p) > 0 /\ p[Len(p)] = Slash
  THEN StripTrailingSlashes(SubSeq(p, 1, Len(p) - 1)) ELSE p

filepathBase(path) ==
  IF path = <<>> THEN <<".">>
  ELSE LET p == StripTrailingSlashes(path)
           sl == {i \in 1..Len(p) : p[i] = Slash}
           q == IF sl = {} THEN p
                ELSE Drop(p, CHOOSE i \in sl : \A j \in sl : i >= j)
       IN IF q = <<>> THEN <<Slash>> ELSE q

\* the value of a run of decimal digits
RECURSIVE DecVal(_)
DecVal(s) ==
  IF s = <<>> THEN 0 ELSE 10 * DecVal(SubSeq(s, 1, Len(s) - 1)) + DigitVal(s[Len(s)])

AllDigits(s) == s # <<>> /\ \A i \in 1..Len(s) : s[i] \in DigitSet

\* strconv.ParseUint(s, 10, 64): [ok, val]
ParseUint(s) ==
  IF AllDigits(s) THEN [ok |-> TRUE, val |-> DecVal(s)] ELSE [ok |-> FALSE, val |-> 0]

\* strconv.ParseFloat(s, 64) on the strings of the model (digit runs and words)
ParseFloat(s) ==
  IF AllDigits(s) THEN [ok |-> TRUE, val |-> DecVal(s)] ELSE [ok |-> FALSE, val |-> 0]

\* strconv.ParseInt(s, 10, 32): an optional sign, then digits
ParseInt(s) ==
  LET signed == Len(s) >= 1 /\ s[1] \in {"+", "-"}
      body == IF signed THEN Tail(s) ELSE s
  IN IF AllDigits(body)
     THEN [ok |-> TRUE, val |-> IF signed /\ s[1] = "-" THEN 0 - DecVal(body) ELSE DecVal(body)]
     ELSE [ok |-> FALSE, val |-> 0]

\* fmt's %d
RECURSIVE FormatNat(_)
FormatNat(n) == IF n < 10 THEN <<Digits[n + 1]>> ELSE FormatNat(n \div 10) \o <<Digits[(n % 10) + 1]>>

FormatInt(n) == IF n < 0 THEN <<"-">> \o FormatNat(0 - n) ELSE FormatNat(n)

\* fmt's %.2f of ticks / 100.0
FormatHundredths(ticks) ==
  FormatNat(ticks \div 100) \o <<".", Digits[((ticks % 100) \div 10) + 1], Digits[(ticks % 10) + 1]>>

\* ------------------------------------------------------------------------
\* The per-process reader.  proc is the directory of one process: a record
\* of its pseudo-files, each [ok, data]; ok = FALSE is a file that cannot
\* be read (the process is gone, permission denied).
\* ------------------------------------------------------------------------

readHostProcFile(proc, file) ==
  IF ~proc[file].ok THEN [err |-> TRUE, content |-> <<>>]
  ELSE [err |-> FALSE, content |-> TrimSpace(proc[file].data)]

parseCommand(cmdline) ==
  LET parts == Split(cmdline, NUL)
  IN IF Len(parts) = 0 THEN [cmd |-> <<>>, args |-> <<>>]
     ELSE [cmd |-> filepathBase(parts[1]), args |-> Join(Tail(parts), SP)]

\* out is "ok", "err" or "panic" (an index out of range: fields[14] of 14
\* fields); val is utime + stime, the numerator of the value returned.
readHostProcStat(proc) ==
  LET f == readHostProcFile(proc, "stat")
      fields == Fields(f.content)
  IN IF f.err THEN [out |-> "err", val |-> 0]
     ELSE IF Len(fields) < 14 THEN [out |-> "err", val |-> 0]
     ELSE IF Len(fields) < 15 THEN [out |-> "panic", val |-> 0]
     ELSE [out |-> "ok", val |-> ParseFloat(fields[14]).val + ParseFloat(fields[15]).val]

RECURSIVE ScanVmRSS(_)
ScanVmRSS(lines) ==
  IF lines = <<>> THEN [err |-> TRUE, val |-> 0]
  ELSE LET fields == Fields(lines[1])
       IN IF HasPrefix(lines[1], "VmRSS:") /\ Len(fields) >= 2
          THEN LET rss == ParseUint(fields[2])
               IN IF ~rss.ok THEN [err |-> TRUE, val |-> 0]
                  ELSE [err |-> FALSE, val |-> rss.val * 1024]
          ELSE ScanVmRSS(Tail(lines))

readHostProcStatus(proc) ==
  LET f == readHostProcFile(proc, "status")
  IN IF f.err THEN [err |-> TRUE, val |-> 0] ELSE ScanVmRSS(Split(f.content, NL))

RECURSIVE ScanIO(_, _)
ScanIO(lines, counters) ==
  IF lines = <<>> THEN counters
  ELSE LET line == lines[1]
           fields == Fields(line)
           next == IF HasPrefix(line, "read_bytes:")
                   THEN IF Len(fields) >= 2
                        THEN [counters EXCEPT !.ReadBytes = ParseUint(fields[2]).val]
                        ELSE counters
                   ELSE IF HasPrefix(line, "write_bytes:")
                   THEN IF Len(fields) >= 2
                        THEN [counters EXCEPT !.WriteBytes = ParseUint(fields[2]).val]
                        ELSE counters
                   ELSE counters
       IN ScanIO(Tail(lines), next)

readHostProcIO(proc) ==
  LET f == readHostProcFile(proc, "io")
  IN IF f.err THEN [err |-> TRUE, ReadBytes |-> 0, WriteBytes |-> 0]
     ELSE LET c == ScanIO(Split(f.content, NL), [ReadBytes |-> 0, WriteBytes |-> 0])
          IN [err |-> FALSE, ReadBytes |-> c.ReadBytes, WriteBytes |-> c.WriteBytes]

RECURSIVE SumNet(_, _, _)
SumNet(lines, i, acc) ==
  IF i > Len(lines) THEN acc
  ELSE LET fields == Fields(lines[i])
       IN IF Len(fields) < 17 THEN SumNet(lines, i + 1, acc)
          ELSE LET rb == ParseUint(fields[2])
                   tb == ParseUint(fields[10])
               IN SumNet(lines, i + 1,
                         [recv |-> acc.recv + (IF rb.ok THEN rb.val ELSE 0),
                          trans |-> acc.trans + (IF tb.ok THEN tb.val ELSE 0)])

\* getNetworkIO with an error returned for a file without interface rows
getNetworkIONeedsRows(proc) ==
  LET f == readHostProcFile(proc, "netdev")
  IN IF f.err \/ Len(Split(f.content, NL)) < 3 THEN [err |-> TRUE, recv |-> 0, trans |-> 0]
     ELSE LET t == SumNet(Split(f.content, NL), 3, [recv |-> 0, trans |-> 0])
          IN [err |-> FALSE, recv |-> t.recv, trans |-> t.trans]

getNetworkIO(proc) ==
  LET f == readHostProcFile(proc, "netdev")
  IN IF f.err THEN [err |-> TRUE, recv |-> 0, trans |-> 0]
     ELSE LET t == SumNet(Split(f.content, NL), 3, [recv |-> 0, trans |-> 0])
          IN [err |-> FALSE, recv |-> t.recv, trans |-> t.trans]

\* one Fprintf of collectProcessMetrics
MetricNames ==
  <<"process_cpu_usage", "process_memory_usage", "process_network_receive_bytes",
    "process_network_transmit_bytes", "process_disk_read_bytes", "process_disk_write_bytes">>

MetricLine(name, pid, cmd, args, value) ==
  <<name, "{pid=\"">> \o FormatInt(pid) \o <<"\",command=\"">> \o cmd
    \o <<"\",args=\"">> \o args \o <<"\"} ">> \o value \o <<NL>>

\* out is "ok" (result is the six rendered lines), "err" or "panic"
collectProcessMetrics(pid, proc) ==
  LET cmdline == readHostProcFile(proc, "cmdline")
      c == parseCommand(cmdline.content)
      cpu == readHostProcStat(proc)
      mem == readHostProcStatus(proc)
      ioCounters == readHostProcIO(proc)
      net == getNetworkIO(proc)
      fail(o) == [out |-> o, result |-> <<>>]
  IN IF cmdline.err THEN fail("err")
     ELSE IF cpu.out # "ok" THEN fail(cpu.out)
     ELSE IF mem.err THEN fail("err")
     ELSE IF ioCounters.err THEN fail("err")
     ELSE IF net.err THEN fail("err")
     ELSE [out |-> "ok",
           result |->
             MetricLine(MetricNames[1], pid, c.cmd, c.args, FormatHundredths(cpu.val))
             \o MetricLine(MetricNames[2], pid, c.cmd, c.args, FormatInt(mem.val))
             \o MetricLine(MetricNames[3], pid, c.cmd, c.args, FormatInt(net.recv))
             \o MetricLine(MetricNames[4], pid, c.cmd, c.args, FormatInt(net.trans))
             \o MetricLine(MetricNames[5], pid, c.cmd, c.args, FormatInt(ioCounters.ReadBytes))
             \o MetricLine(MetricNames[6], pid, c.cmd, c.args, FormatInt(ioCounters.WriteBytes))]

\* strconv.ParseInt over the entries of the root that are directories
RECURSIVE getHostPIDs(_)
getHostPIDs(files) ==
  IF files = <<>> THEN <<>>
  ELSE LET file == files[1]
           pid == ParseInt(file.name)
       IN (IF file.isDir /\ pid.ok THEN <<pid.val>> ELSE <<>>) \o getHostPIDs(Tail(files))

\* ------------------------------------------------------------------------
\* The contents of the host's process-information filesystem that the
\* model draws from: pseudo-files as procfs writes them, and truncated,
\* malformed and unreadable ones.
\* ------------------------------------------------------------------------

File(d) == [ok |-> TRUE, data |-> d]
NoFile == [ok |-> FALSE, data |-> <<>>]

\* fields 1..n of a stat line: pid, (comm), state, then counters; the
\* 14th and 15th are utime and stime
StatLine(pid, comm, n, utime, stime) ==
  Join([i \in 1..n |->
          IF i = 1 THEN FormatInt(pid)
          ELSE IF i = 2 THEN <<"(">> \o comm \o <<")">>
          ELSE IF i = 3 THEN <<"S">>
          ELSE IF i = 14 THEN utime
          ELSE IF i = 15 THEN stime
          ELSE <<"0">>], SP) \o <<NL>>

StatusText(comm, rssLine) ==
  <<"Name:", "\t">> \o comm \o <<NL, "State:", "\t", "S", NL>> \o rssLine
    \o <<"Threads:", "\t", "1", NL>>

IOText(rd, wr) ==
  <<"rchar:", SP, "9", NL>> \o rd \o wr \o <<"cancelled_write_bytes:", SP, "0", NL>>

NetHeader ==
  <<"Inter-|", SP, "Receive", SP, "|", SP, "Transmit", NL,
    SP, "face", SP, "|bytes", SP, "packets", SP, "|bytes", SP, "packets", NL>>

\* one interface row: the name and sixteen counters, the 1st received
\* bytes and the 9th transmitted bytes
NetRow(name, rx, tx) ==
  <<SP, SP>> \o
  Join([i \in 1..17 |->
          IF i = 1 THEN <<name>> ELSE IF i = 2 THEN rx ELSE IF i = 10 THEN tx ELSE <<"0">>],
       SP) \o <<NL>>

CmdlineInputs ==
  { NoFile,
    File(<<>>),
    File(<<Slash, "usr", Slash, "bin", Slash, "bash", NUL>>),
    File(<<"sh", NUL, "-c", NUL, "echo", SP, "a", NL, "echo", SP, "b", NUL>>),
    File(<<"nginx:", SP, "worker", NUL, NUL>>) }

StatInputs(pid, comm) ==
  { NoFile,
    File(<<>>),
    File(StatLine(pid, comm, 13, <<"0">>, <<"0">>)),
    File(StatLine(pid, comm, 14, <<"2", "5">>, <<"0">>)),
    File(StatLine(pid, comm, 15, <<"2", "5">>, <<"1", "0", "0">>)),
    File(StatLine(pid, comm, 15, <<"x">>, <<"y">>)),
    File(StatLine(pid, comm, 52, <<"7">>, <<"x">>)) }

StatusInputs(comm) ==
  { NoFile,
    File(StatusText(comm, <<"VmRSS:", "\t", SP, "3", SP, "kB", NL>>)),
    File(StatusText(comm, <<>>)),
    File(StatusText(comm, <<"VmRSS:", "\t", "x", SP, "kB", NL>>)),
    File(StatusText(comm, <<"VmRSS:", NL>>)) }

IOInputs ==
  { NoFile,
    File(IOText(<<"read_bytes:", SP, "4", "0", NL>>, <<"write_bytes:", SP, "8", NL>>)),
    File(IOText(<<"read_bytes:", SP, "x", NL>>, <<"write_bytes:", SP, "8", NL>>)),
    File(IOText(<<"read_bytes:", SP, "4", "0", NL>>, <<>>)),
    File(<<>>) }

NetInputs ==
  { NoFile,
    File(NetHeader),
    File(NetHeader \o NetRow("lo:", <<"5">>, <<"5">>)),
    File(NetHeader \o NetRow("lo:", <<"5">>, <<"5">>) \o NetRow("eth0:", <<"2", "0">>, <<"1">>)),
    File(NetHeader \o NetRow("eth0:", <<"x">>, <<"1">>)),
    File(<<>>) }

\* every directory of one process the reader is run on
ProcInputs(pid, comm) ==
  { [comm |-> comm, cmdline |-> c, stat |-> st, status |-> su, io |-> i, netdev |-> n] :
      c \in CmdlineInputs, st \in StatInputs(pid, comm),
      su \in StatusInputs(comm), i \in IOInputs, n \in NetInputs }

\* a process whose pseudo-files are all as procfs writes them
GoodProc(pid, comm, cmdline) ==
  [comm |-> comm, cmdline |-> File(cmdline),
   stat |-> File(StatLine(pid, comm, 52, FormatInt(pid), <<"5">>)),
   status |-> File(StatusText(comm, <<"VmRSS:", "\t", SP, "3", SP, "kB", NL>>)),
   io |-> File(IOText(<<"read_bytes:", SP, "4", NL>>, <<"write_bytes:", SP, "8", NL>>)),
   netdev |-> File(NetHeader \o NetRow("lo:", <<"5">>, <<"5">>))]

\* a process that has exited: its directory is gone
GoneProc ==
  [comm |-> <<>>, cmdline |-> NoFile, stat |-> NoFile, status |-> NoFile,
   io |-> NoFile, netdev |-> NoFile]

Dir(name) == [name |-> name, isDir |-> TRUE]
Regular(name) == [name |-> name, isDir |-> FALSE]

\* names of entries of the root: identifiers as procfs writes them, with a
\* leading zero, with a sign, and a word
NameInputs ==
  {<<"1">>, <<"4", "2">>, <<"0">>, <<"0", "7">>, <<"+", "7">>, <<"-", "7">>, <<"self">>}

EntryInputs == {Dir(n) : n \in NameInputs} \cup {Regular(n) : n \in NameInputs}

BashCmd == <<Slash, "bin", Slash, "bash", NUL, "-l", NUL>>
ScriptCmd == <<"sh", NUL, "-c", NUL, "echo", SP, "a", NL, "echo", SP, "b", NUL>>

\* The states of the host the model moves between: the root cannot be
\* listed; processes 1, 2 and 7 are listed and 2 has exited; process 1 alone,
\* a shell whose script holds a newline; process 7 alone, its stat file cut
\* after fourteen fields; no process at all.
Hosts ==
  << [readable |-> FALSE, entries |-> <<>>, procs |-> <<>>],
     [readable |-> TRUE,
      entries |-> <<Dir(<<"1">>), Dir(<<"2">>), Dir(<<"7">>), Dir(<<"self">>), Regular(<<"uptime">>)>>,
      procs |-> [p \in {1, 7} |-> GoodProc(p, <<"bash">>, BashCmd)]],
     [readable |-> TRUE,
      entries |-> <<Dir(<<"1">>), Regular(<<"9">>)>>,
      procs |-> [p \in {1} |-> GoodProc(p, <<"sh">>, ScriptCmd)]],
     [readable |-> TRUE,
      entries |-> <<Dir(<<"7">>)>>,
      procs |-> [p \in {7} |->
                   [GoodProc(p, <<"bash">>, BashCmd) EXCEPT
                      !.stat = File(StatLine(p, <<"bash">>, 14, <<"5">>, <<"5">>))]]],
     [readable |-> TRUE,
      entries |-> <<Dir(<<"self">>), Regular(<<"uptime">>)>>,
      procs |-> <<>>] >>

HostIds == 1..Len(Hosts)
HostPids == {1, 2, 7}

\* the directory of pid on host h, as a read finds it
ProcOf(h, pid) ==
  IF pid \in DOMAIN Hosts[h].procs THEN Hosts[h].procs[pid] ELSE GoneProc

\* what getHostPIDs and collectProcessMetrics return on each host
Enumerated == [h \in HostIds |-> getHostPIDs(Hosts[h].entries)]
Sampled == [h \in HostIds |-> [p \in HostPids |-> collectProcessMetrics(p, ProcOf(h, p))]]

\* ------------------------------------------------------------------------
\* Bounds
\* ------------------------------------------------------------------------

NumReaders == 2

Readers == 1..NumReaders

\* the longest listing of the root given to getHostPIDs run alone
MaxEntries == 2

\* the roots getHostPIDs is run alone on: one that cannot be listed, and
\* every listing of up to MaxEntries entries
RootInputs ==
  {[readable |-> FALSE, entries |-> <<>>, procs |-> <<>>]}
    \cup {[readable |-> TRUE, entries |-> e, procs |-> <<>>] :
            e \in UNION {[1..n -> EntryInputs] : n \in 0..MaxEntries}}

\* ------------------------------------------------------------------------
\* State
\* ------------------------------------------------------------------------

VARIABLES
  host,         \* the state of the host: an index of Hosts
  metrics,      \* the stored document (metrics.go:26)
  pidCache,     \* the map of process handles (metrics.go:28)
  rlocked,      \* metricsMutex: the requests holding the read lock
  wlocked,      \* metricsMutex: the write lock is held
  wpending,     \* metricsMutex: a Lock() is waiting for the readers to leave
  pcS,          \* serveMetrics: where each request is
  body,         \* serveMetrics: the bytes handed to w.Write
  pcU,          \* updateMetrics / collectMetrics: where the refresh loop is
  newMetrics,   \* updateMetrics: the document collectMetrics returned
  err,          \* updateMetrics: collectMetrics returned an error
  pids,         \* collectMetrics: the identifiers enumerated
  task,         \* collectMetrics: the goroutine started for each of pids
  wg,           \* collectMetrics: the WaitGroup's counter
  results,      \* collectMetrics: the buffered channel
  closed,       \* collectMetrics: the channel is closed
  pcC,          \* collectMetrics: the goroutine that waits and closes
  sb,           \* collectMetrics: the builder
  crashed,      \* the program has ended on a panic
  curDoc,       \* history: what the last collectMetrics without error returned
  okSet,        \* history: the tasks of this cycle whose read succeeded
  lastRead,     \* history: the document of the last read since the store changed
  rin,          \* the reader run alone: its identifier and process directory
  rout,         \* the reader run alone: what it returned
  dirents,      \* getHostPIDs run alone: the root it lists
  listed        \* getHostPIDs run alone: what it returned

vars ==
  <<host, metrics, pidCache, rlocked, wlocked, wpending, pcS, body, pcU, newMetrics, err,
    pids, task, wg, results, closed, pcC, sb, crashed, curDoc, okSet, lastRead,
    rin, rout, dirents, listed>>

lockVars == <<rlocked, wlocked, wpending>>
serveVars == <<pcS, body>>
cycleVars == <<pids, task, wg, results, closed, pcC, sb, okSet>>
readerVars == <<rin, rout, dirents, listed>>

NoRun == [out |-> "none", result |-> <<>>]
NoList == [out |-> "none", pids |-> <<>>]
NoRead == [valid |-> FALSE, doc |-> <<>>]

InitProgram ==
  /\ metrics = <<>>
  /\ pidCache = <<>>
  /\ rlocked = {} /\ wlocked = FALSE /\ wpending = FALSE
  /\ pcS = [r \in Readers |-> "idle"]
  /\ body = [r \in Readers |-> <<>>]
  /\ pcU = "collect"
  /\ newMetrics = <<>> /\ err = FALSE
  /\ pids = <<>> /\ task = <<>> /\ wg = 0 /\ results = <<>> /\ closed = FALSE
  /\ pcC = "exit" /\ sb = <<>>
  /\ crashed = FALSE
  /\ curDoc = <<>> /\ okSet = {} /\ lastRead = NoRead
  /\ rout = NoRun
  /\ listed = NoList

Init ==
  /\ InitProgram
  /\ host \in HostIds
  /\ rin = [pid |-> 1, proc |-> GoneProc]
  /\ dirents = Hosts[1]

\* ------------------------------------------------------------------------
\* The host
\* ------------------------------------------------------------------------

\* Processes start and exit, the root is mounted or not.  The program looks
\* at the host when it lists the root and when a goroutine reads a process;
\* a change at any other time is taken up when it next looks.
HostChange(h) ==
  /\ ~crashed
  /\ pcU = "collect" \/ \E i \in DOMAIN task : task[i].pc = "run"
  /\ h # host
  /\ host' = h
  /\ UNCHANGED <<pidCache, metrics, lockVars, serveVars, pcU, newMetrics, err, cycleVars, crashed,
                 curDoc, lastRead, readerVars>>

\* ------------------------------------------------------------------------
\* updateMetrics and collectMetrics
\* ------------------------------------------------------------------------

\* EnumerateFail with the error not looked at: the "" returned is published
EnumerateFailPublished ==
  /\ ~crashed
  /\ pcU = "collect"
  /\ ~Hosts[host].readable
  /\ err' = TRUE
  /\ newMetrics' = <<>>
  /\ wpending' = TRUE
  /\ pcU' = "lockwait"
  /\ UNCHANGED <<pidCache, host, metrics, rlocked, wlocked, serveVars, cycleVars, crashed, curDoc,
                 lastRead, readerVars>>

\* EnumerateFail with the loop continuing without the sleep
EnumerateFailNoSleep ==
  /\ ~crashed
  /\ pcU = "collect"
  /\ ~Hosts[host].readable
  /\ err' = TRUE
  /\ pcU' = "collect"
  /\ UNCHANGED <<pidCache, host, metrics, lockVars, serveVars, newMetrics, cycleVars, crashed,
                 curDoc, lastRead, readerVars>>

\* collectMetrics: getHostPIDs fails; updateMetrics logs the error
EnumerateFail ==
  /\ ~crashed
  /\ pcU = "collect"
  /\ ~Hosts[host].readable
  /\ err' = TRUE
  /\ pcU' = "sleep"
  /\ UNCHANGED <<pidCache, host, metrics, lockVars, serveVars, newMetrics, cycleVars, crashed,
                 curDoc, lastRead, readerVars>>

\* EnumerateOk with the builder starting from the stored document
EnumerateOkStaleBuilder ==
  /\ ~crashed
  /\ pcU = "collect"
  /\ Hosts[host].readable
  /\ pids' = Enumerated[host]
  /\ task' = [i \in 1..Len(pids') |-> [pc |-> "run", result |-> <<>>]]
  /\ wg' = Len(pids')
  /\ results' = <<>>
  /\ closed' = FALSE
  /\ pcC' = "wait"
  /\ sb' = metrics
  /\ okSet' = {}
  /\ pcU' = "range"
  /\ UNCHANGED <<pidCache, host, metrics, lockVars, serveVars, newMetrics, err, crashed, curDoc,
                 lastRead, readerVars>>

\* collectMetrics: getHostPIDs succeeds; the channel is made, a goroutine is
\* started for each identifier, and the goroutine that waits and closes
EnumerateOk ==
  /\ ~crashed
  /\ pcU = "collect"
  /\ Hosts[host].readable
  /\ pids' = Enumerated[host]
  /\ task' = [i \in 1..Len(pids') |-> [pc |-> "run", result |-> <<>>]]
  /\ wg' = Len(pids')
  /\ results' = <<>>
  /\ closed' = FALSE
  /\ pcC' = "wait"
  /\ sb' = <<>>
  /\ okSet' = {}
  /\ pcU' = "range"
  /\ UNCHANGED <<pidCache, host, metrics, lockVars, serveVars, newMetrics, err, crashed, curDoc,
                 lastRead, readerVars>>

\* a goroutine calls collectProcessMetrics; a panic ends the program
TaskRun(i) ==
  /\ ~crashed
  /\ i \in DOMAIN task
  /\ task[i].pc = "run"
  /\ LET r == Sampled[host][pids[i]]
     IN /\ crashed' = (r.out = "panic")
        /\ task' = [task EXCEPT ![i] =
                      IF r.out = "ok" THEN [pc |-> "send", result |-> r.result]
                      ELSE IF r.out = "err" THEN [pc |-> "defer", result |-> <<>>]
                      ELSE [pc |-> "panic", result |-> <<>>]]
        /\ okSet' = IF r.out = "ok" THEN okSet \cup {i} ELSE okSet
  /\ UNCHANGED <<pidCache, host, metrics, lockVars, serveVars, pcU, newMetrics, err, pids, wg, results,
                 closed, pcC, sb, curDoc, lastRead, readerVars>>

\* results <- result; the channel holds len(pids) values, and a send on a
\* closed channel panics
TaskSend(i) ==
  /\ ~crashed
  /\ i \in DOMAIN task
  /\ task[i].pc = "send"
  /\ closed \/ Len(results) < Len(pids)
  /\ IF closed
     THEN /\ crashed' = TRUE
          /\ UNCHANGED <<task, results>>
     ELSE /\ results' = Append(results, task[i].result)
          /\ task' = [task EXCEPT ![i] = [pc |-> "defer", result |-> <<>>]]
          /\ UNCHANGED crashed
  /\ UNCHANGED <<pidCache, host, metrics, lockVars, serveVars, pcU, newMetrics, err, pids, wg, closed,
                 pcC, sb, okSet, curDoc, lastRead, readerVars>>

\* the deferred wg.Done()
TaskDone(i) ==
  /\ ~crashed
  /\ i \in DOMAIN task
  /\ task[i].pc = "defer"
  /\ wg' = wg - 1
  /\ task' = [task EXCEPT ![i].pc = "finished"]
  /\ UNCHANGED <<pidCache, host, metrics, lockVars, serveVars, pcU, newMetrics, err, pids, results,
                 closed, pcC, sb, crashed, okSet, curDoc, lastRead, readerVars>>

\* CloserWait with the channel closed without waiting for the goroutines
CloserWaitNoWait ==
  /\ ~crashed
  /\ pcC = "wait"
  /\ pcC' = "close"
  /\ UNCHANGED <<pidCache, host, metrics, lockVars, serveVars, pcU, newMetrics, err, pids, task, wg,
                 results, closed, sb, crashed, okSet, curDoc, lastRead, readerVars>>

\* wg.Wait() returns
CloserWait ==
  /\ ~crashed
  /\ pcC = "wait"
  /\ wg = 0
  /\ pcC' = "close"
  /\ UNCHANGED <<pidCache, host, metrics, lockVars, serveVars, pcU, newMetrics, err, pids, task, wg,
                 results, closed, sb, crashed, okSet, curDoc, lastRead, readerVars>>

\* close(results)
CloserClose ==
  /\ ~crashed
  /\ pcC = "close"
  /\ closed' = TRUE
  /\ pcC' = "exit"
  /\ UNCHANGED <<pidCache, host, metrics, lockVars, serveVars, pcU, newMetrics, err, pids, task, wg,
                 results, sb, crashed, okSet, curDoc, lastRead, readerVars>>

\* RangeRecv with the builder overwritten by each value
RangeRecvOverwrite ==
  /\ ~crashed
  /\ pcU = "range"
  /\ results # <<>>
  /\ sb' = Head(results)
  /\ results' = Tail(results)
  /\ UNCHANGED <<pidCache, host, metrics, lockVars, serveVars, pcU, newMetrics, err, pids, task, wg,
                 closed, pcC, crashed, okSet, curDoc, lastRead, readerVars>>

\* RangeRecv with each value written to the store as well
RangeRecvIntoStore ==
  /\ ~crashed
  /\ pcU = "range"
  /\ results # <<>>
  /\ sb' = sb \o Head(results)
  /\ metrics' = metrics \o Head(results)
  /\ results' = Tail(results)
  /\ UNCHANGED <<pidCache, host, lockVars, serveVars, pcU, newMetrics, err, pids, task, wg,
                 closed, pcC, crashed, okSet, curDoc, lastRead, readerVars>>

\* for result := range results { sb.WriteString(result) }: one value
RangeRecv ==
  /\ ~crashed
  /\ pcU = "range"
  /\ results # <<>>
  /\ sb' = sb \o Head(results)
  /\ results' = Tail(results)
  /\ UNCHANGED <<pidCache, host, metrics, lockVars, serveVars, pcU, newMetrics, err, pids, task, wg,
                 closed, pcC, crashed, okSet, curDoc, lastRead, readerVars>>

\* RangeEnd with an error returned when no goroutine sent a result
RangeEndErrOnEmpty ==
  /\ ~crashed
  /\ pcU = "range"
  /\ results = <<>>
  /\ closed
  /\ IF sb = <<>> /\ pids # <<>>
     THEN /\ err' = TRUE
          /\ pcU' = "sleep"
          /\ UNCHANGED <<newMetrics, curDoc, wpending>>
     ELSE /\ newMetrics' = sb
          /\ err' = FALSE
          /\ curDoc' = sb
          /\ wpending' = TRUE
          /\ pcU' = "lockwait"
  /\ UNCHANGED <<pidCache, host, metrics, rlocked, wlocked, serveVars, cycleVars, crashed, lastRead, readerVars>>

\* RangeEnd with the range ending as soon as the channel is empty
RangeEndEarly ==
  /\ ~crashed
  /\ pcU = "range"
  /\ results = <<>>
  /\ newMetrics' = sb
  /\ err' = FALSE
  /\ curDoc' = sb
  /\ wpending' = TRUE
  /\ pcU' = "lockwait"
  /\ UNCHANGED <<pidCache, host, metrics, rlocked, wlocked, serveVars, cycleVars, crashed, lastRead, readerVars>>

\* the range ends on the closed, drained channel and collectMetrics returns
\* sb.String() and no error; updateMetrics calls metricsMutex.Lock(), which
\* announces the writer: from here new readers wait
RangeEnd ==
  /\ ~crashed
  /\ pcU = "range"
  /\ results = <<>>
  /\ closed
  /\ newMetrics' = sb
  /\ err' = FALSE
  /\ curDoc' = sb
  /\ wpending' = TRUE
  /\ pcU' = "lockwait"
  /\ UNCHANGED <<pidCache, host, metrics, rlocked, wlocked, serveVars, cycleVars, crashed, lastRead, readerVars>>

\* metricsMutex.Lock() returns once the readers have left
LockAcquire ==
  /\ ~crashed
  /\ pcU = "lockwait"
  /\ rlocked = {}
  /\ wpending' = FALSE
  /\ wlocked' = TRUE
  /\ pcU' = "reset"
  /\ UNCHANGED <<pidCache, host, metrics, rlocked, serveVars, newMetrics, err, cycleVars, crashed,
                 curDoc, lastRead, readerVars>>

\* metrics.Reset()
Reset ==
  /\ ~crashed
  /\ pcU = "reset"
  /\ metrics' = <<>>
  /\ lastRead' = NoRead
  /\ pcU' = "write"
  /\ UNCHANGED <<pidCache, host, lockVars, serveVars, newMetrics, err, cycleVars, crashed, curDoc,
                 readerVars>>

\* metrics.WriteString(newMetrics)
WriteString ==
  /\ ~crashed
  /\ pcU = "write"
  /\ metrics' = metrics \o newMetrics
  /\ lastRead' = NoRead
  /\ pcU' = "unlock"
  /\ UNCHANGED <<pidCache, host, lockVars, serveVars, newMetrics, err, cycleVars, crashed, curDoc,
                 readerVars>>

\* metricsMutex.Unlock(); the cycle's locals are dropped
Unlock ==
  /\ ~crashed
  /\ pcU = "unlock"
  /\ wlocked' = FALSE
  /\ pcU' = "sleep"
  /\ newMetrics' = <<>>
  /\ pids' = <<>> /\ task' = <<>> /\ sb' = <<>> /\ okSet' = {}
  /\ UNCHANGED <<pidCache, host, metrics, rlocked, wpending, serveVars, err, wg, results, closed, pcC,
                 crashed, curDoc, lastRead, readerVars>>

\* time.Sleep(updateInterval) returns
Sleep ==
  /\ ~crashed
  /\ pcU = "sleep"
  /\ pcU' = "collect"
  /\ err' = FALSE
  /\ UNCHANGED <<pidCache, host, metrics, lockVars, serveVars, newMetrics, cycleVars, crashed,
                 curDoc, lastRead, readerVars>>

\* ------------------------------------------------------------------------
\* serveMetrics
\* ------------------------------------------------------------------------

\* ServeRead without the read lock: the document is copied at any time
ServeReadUnlocked(r) ==
  /\ ~crashed
  /\ pcS[r] = "idle"
  /\ rlocked' = rlocked \cup {r}
  /\ body' = [body EXCEPT ![r] = metrics]
  /\ lastRead' = [valid |-> TRUE, doc |-> metrics]
  /\ pcS' = [pcS EXCEPT ![r] = "write"]
  /\ UNCHANGED <<pidCache, host, metrics, wlocked, wpending, pcU, newMetrics, err, cycleVars, crashed,
                 curDoc, readerVars>>

\* ServeRead with the read taking the document out of the store
ServeReadDrain(r) ==
  /\ ~crashed
  /\ pcS[r] = "idle"
  /\ ~wlocked /\ ~wpending
  /\ rlocked' = rlocked \cup {r}
  /\ body' = [body EXCEPT ![r] = metrics]
  /\ lastRead' = [valid |-> TRUE, doc |-> metrics]
  /\ metrics' = <<>>
  /\ pcS' = [pcS EXCEPT ![r] = "write"]
  /\ UNCHANGED <<pidCache, host, wlocked, wpending, pcU, newMetrics, err, cycleVars, crashed,
                 curDoc, readerVars>>

\* a request: metricsMutex.RLock() returns, which it does when no writer
\* holds or awaits the lock; the header is set and metrics.String() copied
ServeRead(r) ==
  /\ ~crashed
  /\ pcS[r] = "idle"
  /\ ~wlocked /\ ~wpending
  /\ rlocked' = rlocked \cup {r}
  /\ body' = [body EXCEPT ![r] = metrics]
  /\ lastRead' = [valid |-> TRUE, doc |-> metrics]
  /\ pcS' = [pcS EXCEPT ![r] = "write"]
  /\ UNCHANGED <<pidCache, host, metrics, wlocked, wpending, pcU, newMetrics, err, cycleVars, crashed,
                 curDoc, readerVars>>

\* w.Write(...) returns, which it does when the peer of the connection has
\* taken the bytes, and the deferred metricsMutex.RUnlock() runs
ServeWrite(r) ==
  /\ ~crashed
  /\ pcS[r] = "write"
  /\ rlocked' = rlocked \ {r}
  /\ body' = [body EXCEPT ![r] = <<>>]
  /\ pcS' = [pcS EXCEPT ![r] = "idle"]
  /\ UNCHANGED <<pidCache, host, metrics, wlocked, wpending, pcU, newMetrics, err, cycleVars,
                 crashed, curDoc, lastRead, readerVars>>

\* ------------------------------------------------------------------------
\* Specifications
\* ------------------------------------------------------------------------

Update ==
  \/ EnumerateFail \/ EnumerateOk \/ RangeRecv \/ RangeEnd
  \/ LockAcquire \/ Reset \/ WriteString \/ Unlock \/ Sleep

Tasks ==
  \/ \E i \in DOMAIN task : TaskRun(i) \/ TaskSend(i) \/ TaskDone(i)
  \/ CloserWait \/ CloserClose

Serve == \E r \in Readers : ServeRead(r) \/ ServeWrite(r)

Next == Update \/ Tasks \/ Serve \/ (\E h \in HostIds : HostChange(h))

Spec == Init /\ [][Next]_vars

\* The Go scheduler runs every goroutine that can run: the refresh loop and
\* the goroutines of a cycle.  Nothing makes a request arrive, the peer of a
\* request take the bytes written to it (no write timeout is set,
\* metrics.go:36) or the host change.
FairSpec == Spec /\ WF_vars(Update) /\ WF_vars(Tasks)

\* the per-process reader run alone, as process 7, on every directory of
\* ProcInputs
InitReader ==
  /\ InitProgram
  /\ host = 1
  /\ rin \in {[pid |-> 7, proc |-> p] : p \in ProcInputs(7, <<"bash">>)}
  /\ dirents = Hosts[1]

ReadProc ==
  /\ rout = NoRun
  /\ rout' = collectProcessMetrics(rin.pid, rin.proc)
  /\ UNCHANGED <<pidCache, host, metrics, lockVars, serveVars, pcU, newMetrics, err, cycleVars,
                 crashed, curDoc, rin, dirents, listed, lastRead>>

ReaderSpec == InitReader /\ [][ReadProc]_vars

\* getHostPIDs run alone on every root of RootInputs
InitEnum ==
  /\ InitProgram
  /\ host = 1
  /\ rin = [pid |-> 1, proc |-> GoneProc]
  /\ dirents \in RootInputs

\* ioutil.ReadDir fails and the error is returned, or the entries are filtered
ListRoot ==
  /\ listed = NoList
  /\ listed' = IF dirents.readable
               THEN [out |-> "ok", pids |-> getHostPIDs(dirents.entries)]
               ELSE [out |-> "err", pids |-> <<>>]
  /\ UNCHANGED <<pidCache, host, metrics, lockVars, serveVars, pcU, newMetrics, err, cycleVars,
                 crashed, curDoc, rin, rout, dirents, lastRead>>

EnumSpec == InitEnum /\ [][ListRoot]_vars

\* ------------------------------------------------------------------------
\* Reading a document back
\* ------------------------------------------------------------------------

\* the refresh loop is between collectMetrics' return and Unlock()
Publishing == pcU \in {"lockwait", "reset", "write", "unlock"}

\* the lines of doc that start metric name{pid="pid",command="
Samples(doc, name, pid) ==
  LET d == FormatInt(pid)
  IN Cardinality({j \in 1..Len(doc) :
       /\ doc[j] = name
       /\ j + Len(d) + 2 <= Len(doc)
       /\ doc[j + 1] = "{pid=\""
       /\ SubSeq(doc, j + 2, j + 1 + Len(d)) = d
       /\ doc[j + Len(d) + 2] = "\",command=\""})

\* the lines of doc that start with a metric name
Headers(doc) ==
  Cardinality({j \in 1..Len(doc) : \E k \in 1..Len(MetricNames) : doc[j] = MetricNames[k]})

\* the newline-terminated lines of doc
LineCount(doc) == Cardinality({j \in 1..Len(doc) : doc[j] = NL})

\* ------------------------------------------------------------------------
\* Claims
\* ------------------------------------------------------------------------

\* C1: every read of the store, whatever publish it interleaves with, copies
\* the complete document of the last cycle that returned one (the empty
\* document before the first): never the state between Reset and WriteString.
C1_AtomicSnapshot ==
  [][\A r \in Readers : (pcS[r] = "idle" /\ pcS'[r] = "write") => body'[r] = curDoc]_vars

\* a request holds the previous document while the next one, a different
\* one, waits to be published
C1_Witness ==
  \E r \in Readers :
    /\ pcS[r] = "write" /\ pcU = "lockwait"
    /\ body[r] # <<>> /\ newMetrics # <<>> /\ body[r] # newMetrics

\* C2: outside a publish (Lock() to Unlock()) the stored document is the one
\* the last collectMetrics without error returned, empty before the first;
\* so a cycle whose enumeration fails leaves it as it was.
C2_StoreHoldsLastSuccess == ~Publishing => metrics = curDoc

\* a cycle has failed and the store still holds a document
C2_Witness == pcU = "sleep" /\ err /\ metrics # <<>>

\* C3: no content of a process's pseudo-files ends the program.
C3_NoEscalation == ~crashed

\* C4: the document collectMetrics returns holds each of the six metric
\* lines once for every identifier whose read succeeded, and no other line.
C4_PartialFailure ==
  Publishing =>
    /\ \A i \in DOMAIN pids : \A k \in 1..Len(MetricNames) :
         Samples(newMetrics, MetricNames[k], pids[i]) = IF i \in okSet THEN 1 ELSE 0
    /\ Headers(newMetrics) = Len(MetricNames) * Cardinality(okSet)

\* 1, 2 and 7 were enumerated, the reads of 1 and 7 succeeded, that of 2 failed
C4_Witness == Publishing /\ pids = <<1, 2, 7>> /\ okSet = {1, 3}

\* the label of the first line of a rendered sample, between two of
\* the format's literal pieces
Between(doc, open, close) ==
  LET a == CHOOSE j \in 1..Len(doc) : doc[j] = open /\ \A k \in 1..(j - 1) : doc[k] # open
      b == CHOOSE j \in (a + 1)..Len(doc) :
             doc[j] = close /\ \A k \in (a + 1)..(j - 1) : doc[k] # close
  IN SubSeq(doc, a + 1, b - 1)

CommandLabel(doc) == Between(doc, "\",command=\"", "\",args=\"")
ArgsLabel(doc) == Between(doc, "\",args=\"", "\"} ")

\* What procfs writes, against which a pseudo-file is malformed: stat has
\* numeric utime and stime fields; status has a VmRSS line with a number; io
\* has read_bytes and write_bytes lines with numbers; every interface row
\* of net/dev has numeric byte counters.
IsNumber(f) == AllDigits(f)

LinesOf(f) == Split(TrimSpace(f.data), NL)

HasCounter(f, key) ==
  \E i \in 1..Len(LinesOf(f)) :
    LET fs == Fields(LinesOf(f)[i])
    IN Len(fs) >= 2 /\ fs[1] = <<key>> /\ IsNumber(fs[2])

StatWellFormed(f) ==
  LET fs == Fields(f.data)
  IN Len(fs) >= 15 /\ IsNumber(fs[14]) /\ IsNumber(fs[15])

NetWellFormed(f) ==
  \A i \in 3..Len(LinesOf(f)) :
    LET fs == Fields(LinesOf(f)[i])
    IN Len(fs) >= 10 /\ IsNumber(fs[2]) /\ IsNumber(fs[10])

SubReadFails(proc) ==
  \/ ~proc.cmdline.ok
  \/ ~proc.stat.ok \/ ~StatWellFormed(proc.stat)
  \/ ~proc.status.ok \/ ~HasCounter(proc.status, "VmRSS:")
  \/ ~proc.io.ok \/ ~HasCounter(proc.io, "read_bytes:") \/ ~HasCounter(proc.io, "write_bytes:")
  \/ ~proc.netdev.ok \/ ~NetWellFormed(proc.netdev)

\* C5: a publish that updateMetrics has started completes, whatever the
\* peers of the scrape requests do.
C5_PublishCompletes == (pcU = "lockwait") ~> (pcU = "sleep")

\* C6: the document returned has six newline-terminated lines for each
\* process sampled, and none when no process was.
C6_SixLinesPerProcess ==
  Publishing => LineCount(newMetrics) = 6 * Cardinality(okSet)

\* C7: when a sub-read of a process fails (its file unreadable or malformed),
\* the sample fails: collectProcessMetrics renders no line for the process.
C7_SubReadFailureFailsSample ==
  (rout # NoRun /\ SubReadFails(rin.proc)) => (rout.out # "ok" /\ rout.result = <<>>)

\* C8: when collectMetrics has returned, every goroutine it started has
\* finished, the channel is closed and drained, and the document holds a
\* sample for every result that was sent.
C8_FanInJoin ==
  Publishing =>
    /\ \A i \in DOMAIN task : task[i].pc = "finished"
    /\ wg = 0 /\ closed /\ pcC = "exit" /\ results = <<>>
    /\ Samples(newMetrics, MetricNames[1], 1) + Samples(newMetrics, MetricNames[1], 2)
         + Samples(newMetrics, MetricNames[1], 7) = Cardinality(okSet)

\* a cycle of three goroutines, two of them with a result, has returned
C8_Witness ==
  /\ Publishing /\ Len(pids) = 3 /\ Cardinality(okSet) = 2
  /\ \A i \in DOMAIN task : task[i].pc = "finished"

\* C9: the refresh loop starts cycle after cycle, and a host that stays as
\* it is, with a root that can be listed, is in the end what the stored
\* document shows.
Reflects(h) ==
  \A p \in HostPids :
    Samples(metrics, MetricNames[1], p) = IF Sampled[h][p].out = "ok" THEN 1 ELSE 0

C9_RefreshLoopLive ==
  /\ []<>(pcU = "collect")
  /\ \A h \in HostIds : Hosts[h].readable => (<>[](host = h) => <>Reflects(h))

\* C10: an empty cmdline renders the process's short name as the command
\* label and an empty args label.
C10_EmptyCmdlineFallback ==
  (rout.out = "ok" /\ rin.proc.cmdline = File(<<>>)) =>
    (CommandLabel(rout.result) = rin.proc.comm /\ ArgsLabel(rout.result) = <<>>)

\* the pid labels of doc: what stands between {pid=" and ",command="
PidLabels(doc) ==
  {SubSeq(doc, j + 1,
          (CHOOSE e \in (j + 1)..Len(doc) :
             doc[e] = "\",command=\"" /\ \A k \in (j + 1)..(e - 1) : doc[k] # "\",command=\"") - 1) :
     j \in {j \in 1..Len(doc) : doc[j] = "{pid=\""}}

\* C11: every pid label of the document collectMetrics returns is an
\* identifier getHostPIDs returned in that same cycle; an identifier of an
\* earlier cycle that this cycle did not enumerate is not in it.
C11_OnlyEnumeratedPids ==
  Publishing =>
    \A l \in PidLabels(newMetrics) : \E i \in DOMAIN pids : l = FormatInt(pids[i])

\* the stored document, of an earlier cycle, has a sample of process 7; this
\* cycle did not enumerate 7 and has returned a document with samples
C11_Witness ==
  /\ pcU = "lockwait" /\ newMetrics # <<>>
  /\ <<"7">> \in PidLabels(metrics)
  /\ \A i \in DOMAIN pids : pids[i] # 7

\* C12: the refresh loop runs one cycle at a time.  Every cycle, failed or
\* published, is followed by the sleep; a cycle starts only when the sleep
\* has returned, and then no goroutine of the cycle before is left, the
\* WaitGroup is at zero and the write lock is free; the write lock is held
\* only by the refresh loop between Lock() and Unlock().
C12_CyclesSequential ==
  [][/\ ((~err /\ err') \/ (wlocked /\ ~wlocked')) => pcU' = "sleep"
     /\ (pcU # "collect" /\ pcU' = "collect") => pcU = "sleep"
     /\ (pcU = "collect" /\ pcU' # "collect") =>
          /\ \A i \in DOMAIN task : task[i].pc = "finished"
          /\ wg = 0 /\ pcC = "exit" /\ ~wlocked /\ ~wpending
     /\ wlocked' => pcU' \in {"reset", "write", "unlock"}]_vars

\* a cycle is in flight, its goroutines running, after an earlier cycle has
\* published
C12_Witness ==
  /\ pcU = "range" /\ metrics # <<>>
  /\ \E i \in DOMAIN task : task[i].pc = "run"

\* C13: collectMetrics returns an error exactly when getHostPIDs fails.
\* When the root was listed it returns the builder's content without error,
\* the empty document when no read succeeded, and updateMetrics publishes
\* what it returned: after WriteString the store holds that document.
C13_OutcomeFollowsEnumeration ==
  [][/\ (pcU = "collect" /\ pcU' # "collect") => (err' <=> ~Hosts[host].readable)
     /\ (~err /\ err') => (pcU = "collect" /\ ~Hosts[host].readable)
     /\ (pcU = "range" /\ pcU' # "range") =>
          /\ ~err' /\ pcU' = "lockwait" /\ newMetrics' = sb
          /\ okSet = {} => newMetrics' = <<>>
     /\ (pcU = "write" /\ pcU' # "write") => metrics' = newMetrics]_vars

\* identifiers were enumerated, no read succeeded, and the empty document
\* returned is about to replace a stored document that has samples
C13_Witness ==
  /\ pcU = "lockwait" /\ pids # <<>> /\ okSet = {}
  /\ newMetrics = <<>> /\ metrics # <<>>

\* a name that reads as a non-negative integer: digits, after a "+" or not
NonNegativeName(name) ==
  AllDigits(name) \/ (Len(name) >= 2 /\ name[1] = "+" /\ AllDigits(Tail(name)))

NameValue(name) == IF name[1] = "+" THEN DecVal(Tail(name)) ELSE DecVal(name)

\* the identifiers of the directories of a listing with such a name, in order
NonNegativeDirs(entries) ==
  LET sel == SelectSeq(entries, LAMBDA f : f.isDir /\ NonNegativeName(f.name))
  IN [i \in 1..Len(sel) |-> NameValue(sel[i].name)]

\* C14: getHostPIDs returns an error exactly when the root cannot be
\* listed; otherwise it returns the identifiers of exactly the entries that
\* are directories with a name that reads as a non-negative integer, and
\* every identifier it returns is at least 0.
C14_EnumeratorFilter ==
  listed # NoList =>
    /\ (listed.out = "err") <=> ~dirents.readable
    /\ dirents.readable => listed.pids = NonNegativeDirs(dirents.entries)
    /\ \A i \in DOMAIN listed.pids : listed.pids[i] >= 0

\* C15: a read returns the document the read before it returned, when the
\* store was not written between the two, and no read changes the store.
C15_ReadIdempotent ==
  [][\A r \in Readers :
       (pcS[r] = "idle" /\ pcS'[r] = "write") =>
         /\ metrics' = metrics
         /\ lastRead.valid => body'[r] = lastRead.doc]_vars

\* two requests have read a document with samples, no publish between them
C15_Witness ==
  /\ \A r \in Readers : pcS[r] = "write" /\ body[r] # <<>>
  /\ lastRead.valid

\* the interface rows of a net/dev file: its lines after the two header lines
NetRows(f) == SubSeq(LinesOf(f), 3, Len(LinesOf(f)))

\* the rows are as procfs writes them: a name and sixteen numbers
RowsAsProcfs(f) ==
  \A i \in 1..Len(NetRows(f)) :
    LET fs == Fields(NetRows(f)[i])
    IN Len(fs) = 17 /\ \A k \in 2..17 : IsNumber(fs[k])

RECURSIVE SumField(_, _)
SumField(rows, k) ==
  IF rows = <<>> THEN 0 ELSE DecVal(Fields(rows[1])[k]) + SumField(Tail(rows), k)

\* the value of the line of a rendered sample that starts with name
MetricValue(doc, name) ==
  LET a == CHOOSE j \in 1..Len(doc) : doc[j] = name
      b == CHOOSE j \in (a + 1)..Len(doc) :
             doc[j] = "\"} " /\ \A k \in (a + 1)..(j - 1) : doc[k] # "\"} "
      e == CHOOSE j \in (b + 1)..Len(doc) :
             doc[j] = NL /\ \A k \in (b + 1)..(j - 1) : doc[k] # NL
  IN SubSeq(doc, b + 1, e - 1)

\* the four sub-reads of a process other than net/dev succeed
OtherReadsSucceed(proc) ==
  /\ ~readHostProcFile(proc, "cmdline").err
  /\ readHostProcStat(proc).out = "ok"
  /\ ~readHostProcStatus(proc).err
  /\ ~readHostProcIO(proc).err

\* C16: for a net/dev file that can be read and whose interface rows are as
\* procfs writes them, getNetworkIO returns no error and the sums of the
\* rows' second and tenth fields, 0 and 0 when the file has its two header
\* lines or fewer and no row; the process is sampled when its other
\* sub-reads succeed, and the sample's two network lines show these sums.
C16_NetTotals ==
  (rout # NoRun /\ rin.proc.netdev.ok /\ RowsAsProcfs(rin.proc.netdev)) =>
    LET n == getNetworkIO(rin.proc)
        rows == NetRows(rin.proc.netdev)
    IN /\ ~n.err
       /\ n.recv = SumField(rows, 2) /\ n.trans = SumField(rows, 10)
       /\ rows = <<>> => (n.recv = 0 /\ n.trans = 0)
       /\ OtherReadsSucceed(rin.proc) => rout.out = "ok"
       /\ rout.out = "ok" =>
            /\ MetricValue(rout.result, MetricNames[3]) = FormatInt(SumField(rows, 2))
            /\ MetricValue(rout.result, MetricNames[4]) = FormatInt(SumField(rows, 10))

\* a process whose net/dev has the two header lines and no row is sampled
C16_Witness ==
  /\ rout.out = "ok"
  /\ rin.proc.netdev = File(NetHeader)
  /\ MetricValue(rout.result, MetricNames[3]) = <<"0">>

\* the channel protocol of a cycle
ChannelProtocol ==
  /\ Len(results) <= Len(pids)
  /\ \A i \in DOMAIN task : task[i].pc = "send" => (~closed /\ Len(results) < Len(pids))
  /\ pcC = "close" => (~closed /\ wg = 0)
  /\ closed => (wg = 0 /\ \A i \in DOMAIN task : task[i].pc = "finished")
  /\ pcU = "range" =>
       Headers(sb) + Len(MetricNames) * Len(results)
         = Len(MetricNames) * Cardinality({i \in okSet : task[i].pc \in {"defer", "finished"}})

\* C17: in every cycle the channel never holds more values than goroutines
\* were started, a goroutine about to send finds room and the channel open,
\* the channel is closed once and only when the WaitGroup is at zero and
\* every goroutine has finished, and every value in the channel or the
\* builder is the one value of a goroutine that has sent; and a cycle whose
\* reads all return reaches the return of collectMetrics.
C17_ChannelProtocol ==
  /\ []ChannelProtocol
  /\ (pcU = "range") ~> (pcU = "lockwait" \/ crashed)

\* the channel is closed with the values of two goroutines in it, none of
\* them received yet
C17_Witness == pcU = "range" /\ closed /\ Len(results) = 2 /\ sb = <<>>

\* C18: the store changes only in a step of updateMetrics that holds the
\* write lock, the Reset that empties it and the WriteString that gives it
\* the document collectMetrics returned, which every published cycle takes
\* once each; no step of collectMetrics, of its goroutines or of
\* serveMetrics changes it; and no step changes the map of process handles.
C18_SinglePointOfMutation ==
  [][/\ metrics' # metrics =>
          /\ wlocked /\ wlocked'
          /\ (pcU = "reset" /\ metrics' = <<>>) \/ (pcU = "write" /\ metrics' = newMetrics)
     /\ (pcU = "lockwait" /\ pcU' # "lockwait") => (pcU' = "reset" /\ metrics' = metrics)
     /\ (pcU = "reset" /\ pcU' # "reset") => pcU' = "write"
     /\ (pcU = "write" /\ pcU' # "write") => pcU' = "unlock"
     /\ (pcU = "unlock" /\ pcU' # "unlock") => (pcU' = "sleep" /\ metrics' = metrics)
     /\ pidCache' = pidCache]_vars

\* the write lock is held and the store has just been given a document with
\* samples
C18_Witness == pcU = "unlock" /\ wlocked /\ metrics # <<>> /\ metrics = newMetrics

====
